---------------------------- MODULE Spec2Model ----------------------------
(***************************************************************************)
(* Model of msgpackc.c: the fixed-width big-endian codecs uint16/3,        *)
(* uint32/3, uint64/3, int16/3, int32/3, int64/3, float32/3 and float64/3  *)
(* that SWI-Prolog loads as foreign predicates.                            *)
(*                                                                         *)
(* Representation.  TLC integers are 32 bits wide, so a C word is a        *)
(* sequence of 16-bit limbs, most significant limb first: uint16_t is one  *)
(* limb, uint32_t two, uint64_t and int64_t four (int64_t as its two's     *)
(* complement pattern).  A Prolog integer is unbounded: a sign and a       *)
(* magnitude of limbs without leading zero limbs.  A Prolog float is an    *)
(* IEEE-754 double, kept as its 64-bit pattern.                            *)
(***************************************************************************)
EXTENDS Integers, Sequences, FiniteSets, TLC

VARIABLES
  build,      \* the byte order the library was compiled for
  pred,       \* the predicate of the current goal
  argNumber,  \* the arguments of the current goal, as the caller passes them
  argBytes0,
  argBytes,
  status,     \* "call": the goal is pending, "exit": it succeeded, "fail"
  resNumber,  \* the arguments after the call, with its bindings
  resBytes0,
  resBytes,
  first,      \* the goal called before the current one, and what it bound
  beTrace     \* a word and the results of converting its byte order

vars == <<build, pred, argNumber, argBytes0, argBytes, status,
          resNumber, resBytes0, resBytes, first, beTrace>>

(***************************************************************************)
(* Word arithmetic on limbs.                                               *)
(***************************************************************************)

\* a | b of two non-negative C ints, bit by bit
RECURSIVE BitOr(_, _)
BitOr(a, b) ==
  IF a = 0 THEN b
  ELSE IF b = 0 THEN a
  ELSE (IF a % 2 = 1 \/ b % 2 = 1 THEN 1 ELSE 0) + 2 * BitOr(a \div 2, b \div 2)

Zeros(n) == [i \in 1..n |-> 0]

Reverse(s) == [i \in 1..Len(s) |-> s[Len(s) + 1 - i]]

\* conversion of an unsigned word to an unsigned type of n limbs:
\* truncation modulo 2^(16 n), or zero extension
Convert(w, n) ==
  IF Len(w) >= n THEN SubSeq(w, Len(w) - n + 1, Len(w))
  ELSE Zeros(n - Len(w)) \o w

\* w << 16k and w >> 16k within the width of w
ShlLimbs(w, k) == SubSeq(w, k + 1, Len(w)) \o Zeros(k)
ShrLimbs(w, k) == Zeros(k) \o SubSeq(w, 1, Len(w) - k)

\* a | b of two words of the same width
WordOr(a, b) == [i \in 1..Len(a) |-> BitOr(a[i], b[i])]

\* unsigned a < b of two words of the same width
RECURSIVE ULess(_, _)
ULess(a, b) ==
  IF a = <<>> THEN FALSE
  ELSE IF a[1] # b[1] THEN a[1] < b[1]
  ELSE ULess(Tail(a), Tail(b))

\* signed a < b of two two's complement words of the same width
FlipSign(w) == <<(w[1] + 32768) % 65536>> \o Tail(w)
SLess(a, b) == ULess(FlipSign(a), FlipSign(b))

\* w + 1 modulo the width of w
RECURSIVE Inc(_)
Inc(w) ==
  IF w = <<>> THEN <<>>
  ELSE LET n == Len(w) IN
       IF w[n] = 65535 THEN Append(Inc(SubSeq(w, 1, n - 1)), 0)
       ELSE SubSeq(w, 1, n - 1) \o <<w[n] + 1>>

\* -w modulo the width of w (two's complement)
Negate(w) == Inc([i \in 1..Len(w) |-> 65535 - w[i]])

\* the magnitude of a Prolog integer has no leading zero limb
RECURSIVE Strip(_)
Strip(w) == IF w # <<>> /\ w[1] = 0 THEN Strip(Tail(w)) ELSE w

\* the limits of <stdint.h>, converted to the 64-bit type they are compared in
UINT8_MAX == <<0, 0, 0, 255>>
UINT16_MAX == <<0, 0, 0, 65535>>
UINT32_MAX == <<0, 0, 65535, 65535>>
INT16_MIN == <<65535, 65535, 65535, 32768>>
INT16_MAX == <<0, 0, 0, 32767>>
INT32_MIN == <<65535, 65535, 32768, 0>>
INT32_MAX == <<0, 0, 32767, 65535>>

(***************************************************************************)
(* Byte order: be16, be32, be64 of the little-endian and of the big-endian *)
(* build.                                                                  *)
(***************************************************************************)
Builds == {"little", "big"}

\* xx << 8 | xx >> 8, computed in int and converted to uint16_t
be16(b, xx) ==
  IF b = "little"
  THEN <<BitOr(xx[1] * 256, xx[1] \div 256) % 65536>>
  ELSE xx

\* be32 that leaves out the shift of its second half:
\* (uint32_t)be16(xxxx) << 16 | be16(xxxx)
be32_unshifted(b, xxxx) ==
  IF b = "little"
  THEN WordOr(ShlLimbs(Convert(be16(b, Convert(xxxx, 1)), 2), 1),
              Convert(be16(b, Convert(xxxx, 1)), 2))
  ELSE xxxx

\* (uint32_t)be16(xxxx) << 16 | be16(xxxx >> 16)
be32(b, xxxx) ==
  IF b = "little"
  THEN WordOr(ShlLimbs(Convert(be16(b, Convert(xxxx, 1)), 2), 1),
              Convert(be16(b, Convert(ShrLimbs(xxxx, 1), 1)), 2))
  ELSE xxxx

\* (uint64_t)be32(xxxxxxxx) << 32 | be32(xxxxxxxx >> 32)
be64(b, xxxxxxxx) ==
  IF b = "little"
  THEN WordOr(ShlLimbs(Convert(be32(b, Convert(xxxxxxxx, 2)), 4), 2),
              Convert(be32(b, Convert(ShrLimbs(xxxxxxxx, 2), 2)), 4))
  ELSE xxxxxxxx

(***************************************************************************)
(* union xx, xxxx, xxxxxxxx: the same storage read as bytes[] (memory      *)
(* order) and as value (host order).                                       *)
(***************************************************************************)
\* the bytes of a word, most significant first
WordBytes(w) ==
  [i \in 1..(2 * Len(w)) |->
     IF i % 2 = 1 THEN w[(i + 1) \div 2] \div 256 ELSE w[i \div 2] % 256]

\* the word whose bytes, most significant first, are bs
BytesWord(bs) ==
  [i \in 1..(Len(bs) \div 2) |-> bs[2 * i - 1] * 256 + bs[2 * i]]

\* a union whose bytes[0] is the most significant byte on every build
UnionBytes_msb(b, value) == WordBytes(value)

\* raw.bytes after raw.value = value
UnionBytes(b, value) ==
  IF b = "little" THEN Reverse(WordBytes(value)) ELSE WordBytes(value)

\* a union whose bytes[0] is the most significant byte on every build
UnionValue_msb(b, bytes) == BytesWord(bytes)

\* raw.value after raw.bytes = bytes
UnionValue(b, bytes) ==
  IF b = "little" THEN BytesWord(Reverse(bytes)) ELSE BytesWord(bytes)

(***************************************************************************)
(* Prolog terms.  The Number argument is an unbound variable, an integer,  *)
(* a float or some other term (an atom).  A Bytes0 or Bytes argument is a  *)
(* list term: its cells, then its tail, which is [] ("nil"), an unbound    *)
(* variable ("var": a partial list, or with no cells the variable itself)  *)
(* or a term that is no list ("atom").  A cell is a variable, an integer   *)
(* or an atom.  Distinct variables of a goal are taken to be distinct.     *)
(***************************************************************************)
VarT == [k |-> "var"]
AtomT == [k |-> "atom"]
IntT(neg, mag) == [k |-> "int", neg |-> neg, mag |-> mag]
FloatT(cls, s, e, f) == [k |-> "float", cls |-> cls, s |-> s, e |-> e, f |-> f]
ListT(cells, tail) == [k |-> "list", cells |-> cells, tail |-> tail]

\* the term of a small non-negative integer and of its negation
Nat16(n) == IntT(FALSE, Strip(<<n>>))
Neg16(n) == IntT(TRUE, <<n>>)

PL_is_variable(t) == t.k = "var"

\* uint64_t of an integer term: fails for a negative integer, for one above
\* 2^64 - 1 and for a term that is no integer
PL_get_uint64(t) ==
  IF t.k = "int" /\ ~t.neg /\ Len(t.mag) <= 4
  THEN [ok |-> TRUE, value |-> Convert(t.mag, 4)]
  ELSE [ok |-> FALSE, value |-> Zeros(4)]

\* int64_t of an integer term: fails outside -2^63 .. 2^63 - 1
PL_get_int64(t) ==
  IF /\ t.k = "int"
     /\ \/ Len(t.mag) <= 3
        \/ Len(t.mag) = 4 /\ t.mag[1] < 32768
        \/ t.neg /\ t.mag = <<32768, 0, 0, 0>>
  THEN [ok |-> TRUE,
        value |-> IF t.neg THEN Negate(Convert(t.mag, 4)) ELSE Convert(t.mag, 4)]
  ELSE [ok |-> FALSE, value |-> Zeros(4)]

\* the integer term of a uint64_t and of an int64_t
TermOfUint64(v) == IntT(FALSE, Strip(v))
TermOfInt64(v) ==
  IF v[1] >= 32768 THEN IntT(TRUE, Strip(Negate(v))) ELSE IntT(FALSE, Strip(v))

\* unification of two cells
UnifyCell(a, b) ==
  IF a.k = "var" THEN [ok |-> TRUE, term |-> b]
  ELSE IF b.k = "var" THEN [ok |-> TRUE, term |-> a]
  ELSE [ok |-> a = b, term |-> a]

PL_unify_uint64(t, v) == UnifyCell(t, TermOfUint64(v))
PL_unify_int64(t, v) == UnifyCell(t, TermOfInt64(v))

\* PL_unify_integer(Byte, *bytes++): the byte is promoted without sign extension
PL_unify_integer(t, byte) == UnifyCell(t, Nat16(byte))

\* PL_get_list: the head and the tail of a list cell, fails at anything else
PL_get_list(l) ==
  IF l.cells # <<>>
  THEN [ok |-> TRUE, head |-> Head(l.cells), tail |-> ListT(Tail(l.cells), l.tail)]
  ELSE [ok |-> FALSE, head |-> VarT, tail |-> l]

\* PL_unify_list: as PL_get_list, and binds an unbound tail to a new list cell
PL_unify_list(l) ==
  IF l.cells # <<>>
  THEN [ok |-> TRUE, head |-> Head(l.cells), tail |-> ListT(Tail(l.cells), l.tail)]
  ELSE IF l.tail = "var"
  THEN [ok |-> TRUE, head |-> VarT, tail |-> ListT(<<>>, "var")]
  ELSE [ok |-> FALSE, head |-> VarT, tail |-> l]

\* PL_unify of two list terms
RECURSIVE PL_unify(_, _)
PL_unify(x, y) ==
  IF x.cells = <<>> /\ x.tail = "var" THEN [ok |-> TRUE, term |-> y]
  ELSE IF y.cells = <<>> /\ y.tail = "var" THEN [ok |-> TRUE, term |-> x]
  ELSE IF x.cells = <<>> \/ y.cells = <<>> THEN [ok |-> x = y, term |-> x]
  ELSE LET h == UnifyCell(Head(x.cells), Head(y.cells))
           t == PL_unify(ListT(Tail(x.cells), x.tail), ListT(Tail(y.cells), y.tail))
       IN  [ok |-> h.ok /\ t.ok,
            term |-> ListT(<<h.term>> \o t.term.cells, t.term.tail)]

(***************************************************************************)
(* get_list_bytes and unify_list_bytes.                                    *)
(***************************************************************************)
\* a loop that stops at the end of the list and returns the bytes it has
\* (a short read)
RECURSIVE get_list_bytes_loop_short(_, _, _)
get_list_bytes_loop_short(Tail0, count, bytes) ==
  IF count = 0 THEN [ok |-> TRUE, Tail |-> Tail0, bytes |-> bytes]
  ELSE LET l == PL_get_list(Tail0)
           v == PL_get_uint64(l.head)
       IN  IF ~l.ok
           THEN [ok |-> TRUE, Tail |-> Tail0, bytes |-> bytes \o Zeros(count)]
           ELSE IF ~v.ok \/ ULess(UINT8_MAX, v.value)
           THEN [ok |-> FALSE, Tail |-> Tail0, bytes |-> bytes]
           ELSE get_list_bytes_loop_short(l.tail, count - 1,
                                          Append(bytes, v.value[4] % 256))

\* a loop without the test value > UINT8_MAX: the cell is truncated to a byte
RECURSIVE get_list_bytes_loop_wide(_, _, _)
get_list_bytes_loop_wide(Tail0, count, bytes) ==
  IF count = 0 THEN [ok |-> TRUE, Tail |-> Tail0, bytes |-> bytes]
  ELSE LET l == PL_get_list(Tail0)
           v == PL_get_uint64(l.head)
       IN  IF ~l.ok \/ ~v.ok
           THEN [ok |-> FALSE, Tail |-> Tail0, bytes |-> bytes]
           ELSE get_list_bytes_loop_wide(l.tail, count - 1,
                                         Append(bytes, v.value[4] % 256))

\* the loop of get_list_bytes: count cells more from Tail, bytes seen so far
RECURSIVE get_list_bytes_loop(_, _, _)
get_list_bytes_loop(Tail0, count, bytes) ==
  IF count = 0 THEN [ok |-> TRUE, Tail |-> Tail0, bytes |-> bytes]
  ELSE LET l == PL_get_list(Tail0)
           v == PL_get_uint64(l.head)
       IN  IF ~l.ok \/ ~v.ok \/ ULess(UINT8_MAX, v.value)
           THEN [ok |-> FALSE, Tail |-> Tail0, bytes |-> bytes]
           ELSE get_list_bytes_loop(l.tail, count - 1,
                                    Append(bytes, v.value[4] % 256))

\* get_list_bytes that unifies Bytes with the list it was given, not with
\* what is left of it: PL_unify(Bytes, Bytes0)
get_list_bytes_rewind(Bytes0, Bytes, count) ==
  LET g == get_list_bytes_loop(Bytes0, count, <<>>)
      u == PL_unify(Bytes, Bytes0)
  IN  IF g.ok /\ u.ok
      THEN [ok |-> TRUE, bytes |-> g.bytes, Bytes |-> u.term, Bytes0 |-> u.term]
      ELSE [ok |-> FALSE, bytes |-> g.bytes, Bytes |-> Bytes, Bytes0 |-> Bytes0]

\* ok: the result; bytes: the buffer (the bytes seen, also on failure);
\* Bytes0, Bytes: the two arguments with the bindings of a success (Bytes0
\* is the cells the loop went through, then what Bytes was unified with)
get_list_bytes(Bytes0, Bytes, count) ==
  LET g == get_list_bytes_loop(Bytes0, count, <<>>)
      u == PL_unify(Bytes, g.Tail)
  IN  IF g.ok /\ u.ok
      THEN [ok |-> TRUE, bytes |-> g.bytes, Bytes |-> u.term,
            Bytes0 |-> ListT(SubSeq(Bytes0.cells, 1,
                                    Len(Bytes0.cells) - Len(g.Tail.cells))
                               \o u.term.cells,
                             u.term.tail)]
      ELSE [ok |-> FALSE, bytes |-> g.bytes, Bytes |-> Bytes, Bytes0 |-> Bytes0]

\* the loop of unify_list_bytes: bytes[i..] still to unify with Tail, done the
\* cells unified so far
RECURSIVE unify_list_bytes_loop(_, _, _, _)
unify_list_bytes_loop(Tail0, bytes, i, done) ==
  IF i > Len(bytes) THEN [ok |-> TRUE, Tail |-> Tail0, done |-> done]
  ELSE LET l == PL_unify_list(Tail0)
           c == PL_unify_integer(l.head, bytes[i])
       IN  IF ~l.ok \/ ~c.ok
           THEN [ok |-> FALSE, Tail |-> Tail0, done |-> done]
           ELSE unify_list_bytes_loop(l.tail, bytes, i + 1, Append(done, c.term))

unify_list_bytes(Bytes0, Bytes, bytes) ==
  LET g == unify_list_bytes_loop(Bytes0, bytes, 1, <<>>)
      u == PL_unify(Bytes, g.Tail)
  IN  IF g.ok /\ u.ok
      THEN [ok |-> TRUE, Bytes |-> u.term,
            Bytes0 |-> ListT(g.done \o u.term.cells, u.term.tail)]
      ELSE [ok |-> FALSE, Bytes |-> Bytes, Bytes0 |-> Bytes0]

(***************************************************************************)
(* Floating point.  A C float or double, and a Prolog float (a double),    *)
(* is held as its value: class cls, sign s and, for "normal", the          *)
(* exponent e and the fraction f of (-1)^s * 2^e * 1.f; for "sub" the      *)
(* fraction of (-1)^s * 2^emin * 0.f; for "nan" the payload.  The fraction *)
(* of a float is a number below 2^23, the fraction of a double a word of   *)
(* four limbs below 2^52.  The reinterpret functions turn a value into its *)
(* IEEE-754 pattern and back.                                              *)
(***************************************************************************)
RECURSIVE NatBits(_, _)
NatBits(n, len) ==
  IF len = 0 THEN <<>> ELSE Append(NatBits(n \div 2, len - 1), n % 2)

RECURSIVE BitsNat(_)
BitsNat(bits) ==
  IF bits = <<>> THEN 0
  ELSE 2 * BitsNat(SubSeq(bits, 1, Len(bits) - 1)) + bits[Len(bits)]

RECURSIVE WordBits(_)
WordBits(w) ==
  IF w = <<>> THEN <<>> ELSE NatBits(w[1], 16) \o WordBits(Tail(w))

RECURSIVE BitsWord(_)
BitsWord(bits) ==
  IF bits = <<>> THEN <<>>
  ELSE <<BitsNat(SubSeq(bits, 1, 16))>> \o BitsWord(SubSeq(bits, 17, Len(bits)))

RECURSIVE StripBits(_)
StripBits(bits) ==
  IF bits # <<>> /\ bits[1] = 0 THEN StripBits(Tail(bits)) ELSE bits

\* round to nearest, ties to even: whether dropping rest after kept rounds up
RoundsUp(kept, rest) ==
  /\ rest # <<>>
  /\ rest[1] = 1
  /\ \/ \E i \in 2..Len(rest) : rest[i] = 1
     \/ kept # <<>> /\ kept[Len(kept)] = 1

\* the fraction of a double (52 bits) as bits and back
FracBits(f) == SubSeq(WordBits(f), 13, 64)
BitsFrac(bits) == BitsWord(Zeros(12) \o bits)

\* (float)d: the conversion of a double to float, rounding to nearest
DoubleToFloat(d) ==
  IF d.cls = "zero" \/ d.cls = "sub" THEN [cls |-> "zero", s |-> d.s, e |-> 0, f |-> 0]
  ELSE IF d.cls = "inf" THEN [cls |-> "inf", s |-> d.s, e |-> 0, f |-> 0]
  ELSE IF d.cls = "nan"
  THEN [cls |-> "nan", s |-> d.s, e |-> 0,
        f |-> BitOr(4194304, BitsNat(SubSeq(FracBits(d.f), 1, 23)))]
  ELSE LET sig  == <<1>> \o FracBits(d.f)
           drop == IF d.e >= -126 THEN 29 ELSE 29 + (-126 - d.e)
           wide == Zeros(IF drop > 53 THEN drop - 53 ELSE 0) \o sig
           kept == SubSeq(wide, 1, Len(wide) - drop)
           rest == SubSeq(wide, Len(wide) - drop + 1, Len(wide))
           n    == BitsNat(kept) + (IF RoundsUp(kept, rest) THEN 1 ELSE 0)
       IN  IF d.e >= -126
           THEN LET e2 == IF n = 16777216 THEN d.e + 1 ELSE d.e
                    f2 == IF n = 16777216 THEN 0 ELSE n - 8388608
                IN  IF e2 > 127 THEN [cls |-> "inf", s |-> d.s, e |-> 0, f |-> 0]
                    ELSE [cls |-> "normal", s |-> d.s, e |-> e2, f |-> f2]
           ELSE IF n = 0 THEN [cls |-> "zero", s |-> d.s, e |-> 0, f |-> 0]
           ELSE IF n = 8388608 THEN [cls |-> "normal", s |-> d.s, e |-> -126, f |-> 0]
           ELSE [cls |-> "sub", s |-> d.s, e |-> 0, f |-> n]

\* (double)x: the conversion of a float to double, exact
FloatToDouble(x) ==
  IF x.cls = "zero" \/ x.cls = "inf"
  THEN [cls |-> x.cls, s |-> x.s, e |-> 0, f |-> Zeros(4)]
  ELSE IF x.cls = "nan"
  THEN [cls |-> "nan", s |-> x.s, e |-> 0,
        f |-> BitsFrac(NatBits(BitOr(4194304, x.f), 23) \o Zeros(29))]
  ELSE IF x.cls = "normal"
  THEN [cls |-> "normal", s |-> x.s, e |-> x.e,
        f |-> BitsFrac(NatBits(x.f, 23) \o Zeros(29))]
  ELSE LET bits == StripBits(NatBits(x.f, 23))
       IN  [cls |-> "normal", s |-> x.s, e |-> Len(bits) - 1 - 149,
            f |-> BitsFrac(Tail(bits) \o Zeros(52 - (Len(bits) - 1)))]

\* (double) of a Prolog integer, rounding to nearest
IntToDouble(t) ==
  LET bits == StripBits(WordBits(t.mag))
      s    == IF t.neg THEN 1 ELSE 0
  IN  IF bits = <<>> THEN [cls |-> "zero", s |-> 0, e |-> 0, f |-> Zeros(4)]
      ELSE LET wide == bits \o Zeros(IF Len(bits) < 53 THEN 53 - Len(bits) ELSE 0)
               kept == SubSeq(wide, 1, 53)
               rest == SubSeq(wide, 54, Len(wide))
               up   == RoundsUp(kept, rest)
               frac == BitsFrac(Tail(kept))
               full == \A i \in 1..53 : kept[i] = 1
           IN  IF up /\ full
               THEN [cls |-> "normal", s |-> s, e |-> Len(bits), f |-> Zeros(4)]
               ELSE [cls |-> "normal", s |-> s, e |-> Len(bits) - 1,
                     f |-> IF up THEN Inc(frac) ELSE frac]

\* (uint32_t)xxxx: the numeric cast of a float, not its pattern
reinterpret_from_float32_cast(xxxx) ==
  IF xxxx.cls = "normal" /\ xxxx.s = 0 /\ xxxx.e >= 0 /\ xxxx.e <= 23
  THEN LET n == (8388608 + xxxx.f) \div (2 ^ (23 - xxxx.e))
       IN  <<n \div 65536, n % 65536>>
  ELSE <<0, 0>>

\* *(uint32_t *)&xxxx: the pattern of a float
reinterpret_from_float32(xxxx) ==
  LET bexp == IF xxxx.cls = "normal" THEN xxxx.e + 127
              ELSE IF xxxx.cls \in {"inf", "nan"} THEN 255 ELSE 0
  IN  <<xxxx.s * 32768 + bexp * 128 + xxxx.f \div 65536, xxxx.f % 65536>>

\* *(float *)&xxxx: the float of a pattern
reinterpret_to_float32(xxxx) ==
  LET s    == xxxx[1] \div 32768
      bexp == (xxxx[1] \div 128) % 256
      f    == (xxxx[1] % 128) * 65536 + xxxx[2]
  IN  IF bexp = 255
      THEN [cls |-> IF f = 0 THEN "inf" ELSE "nan", s |-> s, e |-> 0, f |-> f]
      ELSE IF bexp = 0
      THEN [cls |-> IF f = 0 THEN "zero" ELSE "sub", s |-> s, e |-> 0, f |-> f]
      ELSE [cls |-> "normal", s |-> s, e |-> bexp - 127, f |-> f]

\* *(uint64_t *)&xxxxxxxx: the pattern of a double
reinterpret_from_float64(xxxxxxxx) ==
  LET bexp == IF xxxxxxxx.cls = "normal" THEN xxxxxxxx.e + 1023
              ELSE IF xxxxxxxx.cls \in {"inf", "nan"} THEN 2047 ELSE 0
  IN  <<xxxxxxxx.s * 32768 + bexp * 16 + xxxxxxxx.f[1]>> \o Tail(xxxxxxxx.f)

\* *(double *)&xxxxxxxx: the double of a pattern
reinterpret_to_float64(xxxxxxxx) ==
  LET s    == xxxxxxxx[1] \div 32768
      bexp == (xxxxxxxx[1] \div 16) % 2048
      f    == <<xxxxxxxx[1] % 16>> \o Tail(xxxxxxxx)
  IN  IF bexp = 2047
      THEN [cls |-> IF f = Zeros(4) THEN "inf" ELSE "nan", s |-> s, e |-> 0, f |-> f]
      ELSE IF bexp = 0
      THEN [cls |-> IF f = Zeros(4) THEN "zero" ELSE "sub", s |-> s, e |-> 0, f |-> f]
      ELSE [cls |-> "normal", s |-> s, e |-> bexp - 1023, f |-> f]

\* the Prolog float of a double and back
TermOfDouble(d) == FloatT(d.cls, d.s, d.e, d.f)
DoubleOfTerm(t) == [cls |-> t.cls, s |-> t.s, e |-> t.e, f |-> t.f]

\* PL_get_float: the double of a float or of an integer, fails for the rest
PL_get_float(t) ==
  IF t.k = "float" THEN [ok |-> TRUE, value |-> DoubleOfTerm(t)]
  ELSE IF t.k = "int" THEN [ok |-> TRUE, value |-> IntToDouble(t)]
  ELSE [ok |-> FALSE, value |-> [cls |-> "zero", s |-> 0, e |-> 0, f |-> Zeros(4)]]

PL_unify_float(t, d) == UnifyCell(t, TermOfDouble(d))

(***************************************************************************)
(* The foreign predicates.  Each returns ok (the predicate succeeds) and   *)
(* its three arguments with the bindings made; a failure binds nothing.    *)
(***************************************************************************)
Fails(Number, Bytes0, Bytes) ==
  [ok |-> FALSE, Number |-> Number, Bytes0 |-> Bytes0, Bytes |-> Bytes]

Exits(n, l, Number, Bytes0, Bytes) ==
  IF n.ok /\ l.ok
  THEN [ok |-> TRUE, Number |-> n.term, Bytes0 |-> l.Bytes0, Bytes |-> l.Bytes]
  ELSE Fails(Number, Bytes0, Bytes)

\* the conversion of the uint16_t, uint32_t or uint64_t argument of
\* PL_unify_uint64 to uint64_t
Uint64Of(w) == Convert(w, 4)

\* the conversion of the uint16_t, uint32_t or uint64_t argument of
\* PL_unify_int64 to int64_t: the value of a narrower unsigned type is kept,
\* a uint64_t above INT64_MAX wraps to the same pattern
Int64Of(w) == Convert(w, 4)

float32_3(b, Number, Bytes0, Bytes) ==
  IF PL_is_variable(Number)
  THEN LET g == get_list_bytes(Bytes0, Bytes, 4)
       IN  IF ~g.ok THEN Fails(Number, Bytes0, Bytes)
           ELSE Exits(PL_unify_float(Number,
                        FloatToDouble(reinterpret_to_float32(
                          be32(b, UnionValue(b, g.bytes))))),
                      g, Number, Bytes0, Bytes)
  ELSE LET v == PL_get_float(Number)
       IN  IF ~v.ok THEN Fails(Number, Bytes0, Bytes)
           ELSE LET raw == be32(b, reinterpret_from_float32(DoubleToFloat(v.value)))
                IN  Exits([ok |-> TRUE, term |-> Number],
                          unify_list_bytes(Bytes0, Bytes, UnionBytes(b, raw)),
                          Number, Bytes0, Bytes)

float64_3(b, Number, Bytes0, Bytes) ==
  IF PL_is_variable(Number)
  THEN LET g == get_list_bytes(Bytes0, Bytes, 8)
       IN  IF ~g.ok THEN Fails(Number, Bytes0, Bytes)
           ELSE Exits(PL_unify_float(Number,
                        reinterpret_to_float64(be64(b, UnionValue(b, g.bytes)))),
                      g, Number, Bytes0, Bytes)
  ELSE LET v == PL_get_float(Number)
       IN  IF ~v.ok THEN Fails(Number, Bytes0, Bytes)
           ELSE LET raw == be64(b, reinterpret_from_float64(v.value))
                IN  Exits([ok |-> TRUE, term |-> Number],
                          unify_list_bytes(Bytes0, Bytes, UnionBytes(b, raw)),
                          Number, Bytes0, Bytes)

\* uint16_3 without the test value > UINT16_MAX: the value is truncated
uint16_3_unchecked(b, Number, Bytes0, Bytes) ==
  IF PL_is_variable(Number)
  THEN LET g == get_list_bytes(Bytes0, Bytes, 2)
       IN  IF ~g.ok THEN Fails(Number, Bytes0, Bytes)
           ELSE Exits(PL_unify_uint64(Number,
                        Uint64Of(be16(b, UnionValue(b, g.bytes)))),
                      g, Number, Bytes0, Bytes)
  ELSE LET v == PL_get_uint64(Number)
       IN  IF ~v.ok THEN Fails(Number, Bytes0, Bytes)
           ELSE LET raw == be16(b, Convert(v.value, 1))
                IN  Exits([ok |-> TRUE, term |-> Number],
                          unify_list_bytes(Bytes0, Bytes, UnionBytes(b, raw)),
                          Number, Bytes0, Bytes)

uint16_3(b, Number, Bytes0, Bytes) ==
  IF PL_is_variable(Number)
  THEN LET g == get_list_bytes(Bytes0, Bytes, 2)
       IN  IF ~g.ok THEN Fails(Number, Bytes0, Bytes)
           ELSE Exits(PL_unify_uint64(Number,
                        Uint64Of(be16(b, UnionValue(b, g.bytes)))),
                      g, Number, Bytes0, Bytes)
  ELSE LET v == PL_get_uint64(Number)
       IN  IF ~v.ok \/ ULess(UINT16_MAX, v.value) THEN Fails(Number, Bytes0, Bytes)
           ELSE LET raw == be16(b, Convert(v.value, 1))
                IN  Exits([ok |-> TRUE, term |-> Number],
                          unify_list_bytes(Bytes0, Bytes, UnionBytes(b, raw)),
                          Number, Bytes0, Bytes)

uint32_3(b, Number, Bytes0, Bytes) ==
  IF PL_is_variable(Number)
  THEN LET g == get_list_bytes(Bytes0, Bytes, 4)
       IN  IF ~g.ok THEN Fails(Number, Bytes0, Bytes)
           ELSE Exits(PL_unify_uint64(Number,
                        Uint64Of(be32(b, UnionValue(b, g.bytes)))),
                      g, Number, Bytes0, Bytes)
  ELSE LET v == PL_get_uint64(Number)
       IN  IF ~v.ok \/ ULess(UINT32_MAX, v.value) THEN Fails(Number, Bytes0, Bytes)
           ELSE LET raw == be32(b, Convert(v.value, 2))
                IN  Exits([ok |-> TRUE, term |-> Number],
                          unify_list_bytes(Bytes0, Bytes, UnionBytes(b, raw)),
                          Number, Bytes0, Bytes)

uint64_3(b, Number, Bytes0, Bytes) ==
  IF PL_is_variable(Number)
  THEN LET g == get_list_bytes(Bytes0, Bytes, 8)
       IN  IF ~g.ok THEN Fails(Number, Bytes0, Bytes)
           ELSE Exits(PL_unify_uint64(Number,
                        Uint64Of(be64(b, UnionValue(b, g.bytes)))),
                      g, Number, Bytes0, Bytes)
  ELSE LET v == PL_get_uint64(Number)
       IN  IF ~v.ok THEN Fails(Number, Bytes0, Bytes)
           ELSE LET raw == be64(b, v.value)
                IN  Exits([ok |-> TRUE, term |-> Number],
                          unify_list_bytes(Bytes0, Bytes, UnionBytes(b, raw)),
                          Number, Bytes0, Bytes)

int16_3(b, Number, Bytes0, Bytes) ==
  IF PL_is_variable(Number)
  THEN LET g == get_list_bytes(Bytes0, Bytes, 2)
       IN  IF ~g.ok THEN Fails(Number, Bytes0, Bytes)
           ELSE Exits(PL_unify_int64(Number,
                        Int64Of(be16(b, UnionValue(b, g.bytes)))),
                      g, Number, Bytes0, Bytes)
  ELSE LET v == PL_get_int64(Number)
       IN  IF ~v.ok \/ SLess(v.value, INT16_MIN) \/ SLess(INT16_MAX, v.value)
           THEN Fails(Number, Bytes0, Bytes)
           ELSE LET raw == be16(b, Convert(v.value, 1))
                IN  Exits([ok |-> TRUE, term |-> Number],
                          unify_list_bytes(Bytes0, Bytes, UnionBytes(b, raw)),
                          Number, Bytes0, Bytes)

int32_3(b, Number, Bytes0, Bytes) ==
  IF PL_is_variable(Number)
  THEN LET g == get_list_bytes(Bytes0, Bytes, 4)
       IN  IF ~g.ok THEN Fails(Number, Bytes0, Bytes)
           ELSE Exits(PL_unify_int64(Number,
                        Int64Of(be32(b, UnionValue(b, g.bytes)))),
                      g, Number, Bytes0, Bytes)
  ELSE LET v == PL_get_int64(Number)
       IN  IF ~v.ok \/ SLess(v.value, INT32_MIN) \/ SLess(INT32_MAX, v.value)
           THEN Fails(Number, Bytes0, Bytes)
           ELSE LET raw == be32(b, Convert(v.value, 2))
                IN  Exits([ok |-> TRUE, term |-> Number],
                          unify_list_bytes(Bytes0, Bytes, UnionBytes(b, raw)),
                          Number, Bytes0, Bytes)

int64_3(b, Number, Bytes0, Bytes) ==
  IF PL_is_variable(Number)
  THEN LET g == get_list_bytes(Bytes0, Bytes, 8)
       IN  IF ~g.ok THEN Fails(Number, Bytes0, Bytes)
           ELSE Exits(PL_unify_int64(Number,
                        Int64Of(be64(b, UnionValue(b, g.bytes)))),
                      g, Number, Bytes0, Bytes)
  ELSE LET v == PL_get_int64(Number)
       IN  IF ~v.ok THEN Fails(Number, Bytes0, Bytes)
           ELSE LET raw == be64(b, v.value)
                IN  Exits([ok |-> TRUE, term |-> Number],
                          unify_list_bytes(Bytes0, Bytes, UnionBytes(b, raw)),
                          Number, Bytes0, Bytes)

(***************************************************************************)
(* The goals called.  MaxLimbs bounds the integers passed in (in limbs:    *)
(* five limbs reach past 2^64), MaxExtra the cells of an input list beyond *)
(* the width of the codec.                                                 *)
(***************************************************************************)
MaxLimbs == 5
MaxExtra == 2

IntPreds == {"uint16", "uint32", "uint64", "int16", "int32", "int64"}
FloatPreds == {"float32", "float64"}
Preds == IntPreds \cup FloatPreds

\* sizeof(raw.bytes) of the predicate
Width(p) ==
  IF p \in {"uint16", "int16"} THEN 2
  ELSE IF p \in {"uint32", "int32", "float32"} THEN 4
  ELSE 8

\* limbs at the edges of the ranges: 0, 1, 0x7FFF, 0x8000, 0x8001, 0xFFFF
EdgeLimbs == {0, 1, 32767, 32768, 32769, 65535}

\* n limbs: top, then mid repeated, then low
Fill(top, mid, low, n) ==
  [i \in 1..n |-> IF i = 1 THEN top ELSE IF i = n THEN low ELSE mid]

\* 0x0102, 0x01020304, 0x0102030405060708
ExampleMags == {<<258>>, <<258, 772>>, <<258, 772, 1286, 1800>>}

IntMags ==
  {<<>>} \cup ExampleMags \cup
  {Fill(t, m, l, n) : t \in EdgeLimbs \ {0}, m \in EdgeLimbs, l \in EdgeLimbs,
                      n \in 1..MaxLimbs}

IntTerms ==
  {IntT(FALSE, m) : m \in IntMags} \cup {IntT(TRUE, m) : m \in IntMags \ {<<>>}}

\* 0.0, -0.0, 1.5, -1.5, 0.1, 2^1000, 2^-140, the double below 2^128,
\* a subnormal double, +inf, -inf, a NaN
FloatTerms ==
  { FloatT("zero", 0, 0, Zeros(4)), FloatT("zero", 1, 0, Zeros(4)),
    FloatT("normal", 0, 0, <<8, 0, 0, 0>>), FloatT("normal", 1, 0, <<8, 0, 0, 0>>),
    FloatT("normal", 0, -4, <<9, 39321, 39321, 39322>>),
    FloatT("normal", 0, 1000, Zeros(4)), FloatT("normal", 0, -140, <<8, 0, 0, 1>>),
    FloatT("normal", 0, 127, <<15, 65535, 65535, 65535>>),
    FloatT("sub", 0, 0, <<0, 0, 0, 1>>),
    FloatT("inf", 0, 0, Zeros(4)), FloatT("inf", 1, 0, Zeros(4)),
    FloatT("nan", 0, 0, <<8, 0, 0, 0>>) }

\* 0, 3, -2, 2^53 + 1, 2^64 - 1
FloatInts ==
  { IntT(FALSE, <<>>), IntT(FALSE, <<3>>), IntT(TRUE, <<2>>),
    IntT(FALSE, <<32, 0, 0, 1>>), IntT(FALSE, <<65535, 65535, 65535, 65535>>) }

VarL == ListT(<<>>, "var")
NilL == ListT(<<>>, "nil")

\* the output arguments an encode is called with: Bytes0 unbound (with Bytes
\* unbound or []), Bytes0 = [], Bytes0 = [255|_], Bytes0 = [_, 1|_]
EncodeLists ==
  { <<VarL, VarL>>, <<VarL, NilL>>, <<NilL, VarL>>,
    <<ListT(<<Nat16(255)>>, "var"), VarL>>,
    <<ListT(<<VarT, Nat16(1)>>, "var"), VarL>> }

\* the numbers an encode of predicate p is called with
EncodeNumbers(p) ==
  IF p \in IntPreds THEN IntTerms \cup {AtomT}
  ELSE FloatTerms \cup FloatInts \cup {AtomT}

\* limbs whose bytes are 01 02, 03 04, 80 FF, 7F 00
ByteLimbs == {258, 772, 33023, 32512}

\* cells that are no byte: 256, -1, 2^64, an unbound variable, an atom
BadCells ==
  {Nat16(256), Neg16(1), IntT(FALSE, <<1, 0, 0, 0, 0>>), VarT, AtomT}

ByteCells(bs) == [i \in 1..Len(bs) |-> Nat16(bs[i])]

\* the lists of len cells a decode of predicate p is given: bytes, at most
\* one of them replaced by a cell that is no byte
DecodeCells(p, len) ==
  LET limbs == (Width(p) + MaxExtra + 1) \div 2
      clean == { SubSeq(ByteCells(WordBytes(Fill(t, m, l, limbs))), 1, len) :
                   t \in ByteLimbs, m \in ByteLimbs, l \in ByteLimbs }
  IN  clean \cup
      { [c EXCEPT ![i] = x] : c \in clean, i \in 1..len, x \in BadCells }

IsClean(cells) == \A i \in 1..Len(cells) : cells[i] \notin BadCells

\* the tail of an input list and the Bytes argument that come with its
\* cells: a list with a cell that is no byte comes as a proper list with
\* Bytes unbound; a list of bytes also as a partial list, as a list that ends
\* in an atom, and with Bytes = []
DecodeTails(cells) ==
  IF IsClean(cells)
  THEN {<<"nil", VarL>>, <<"var", VarL>>, <<"atom", VarL>>, <<"nil", NilL>>}
  ELSE {<<"nil", VarL>>}

(***************************************************************************)
(* The state machine: a goal is called; a goal that succeeded is followed  *)
(* by the goal of the same predicate in the other direction.               *)
(***************************************************************************)
NoCall == [k |-> "none"]

\* the goal pred(Number, Bytes0, Bytes) is about to be called
Goal(p, Number, Bytes0, Bytes) ==
  /\ pred = p
  /\ argNumber = Number
  /\ argBytes0 = Bytes0
  /\ argBytes = Bytes
  /\ resNumber = Number
  /\ resBytes0 = Bytes0
  /\ resBytes = Bytes
  /\ status = "call"
  /\ first = NoCall
  /\ beTrace = <<>>

InitEncode ==
  /\ build \in Builds
  /\ \E p \in Preds, l \in EncodeLists :
       \E n \in EncodeNumbers(p) : Goal(p, n, l[1], l[2])

InitDecode ==
  /\ build \in Builds
  /\ \E p \in Preds :
       \E len \in 0..(Width(p) + MaxExtra) :
         \E c \in DecodeCells(p, len) :
           \E t \in DecodeTails(c) : Goal(p, VarT, ListT(c, t[1]), t[2])

Init == InitEncode \/ InitDecode

\* the call of predicate p, whose foreign function returns r
Call(p, r) ==
  /\ status = "call"
  /\ pred = p
  /\ status' = IF r.ok THEN "exit" ELSE "fail"
  /\ resNumber' = r.Number
  /\ resBytes0' = r.Bytes0
  /\ resBytes' = r.Bytes
  /\ UNCHANGED <<build, pred, argNumber, argBytes0, argBytes, first, beTrace>>

Call_float32 == Call("float32", float32_3(build, argNumber, argBytes0, argBytes))
Call_float64 == Call("float64", float64_3(build, argNumber, argBytes0, argBytes))
Call_uint16 == Call("uint16", uint16_3(build, argNumber, argBytes0, argBytes))
Call_uint32 == Call("uint32", uint32_3(build, argNumber, argBytes0, argBytes))
Call_uint64 == Call("uint64", uint64_3(build, argNumber, argBytes0, argBytes))
Call_int16 == Call("int16", int16_3(build, argNumber, argBytes0, argBytes))
Call_int32 == Call("int32", int32_3(build, argNumber, argBytes0, argBytes))
Call_int64 == Call("int64", int64_3(build, argNumber, argBytes0, argBytes))

\* the caller's conjunction: after an encode, the decode of the list it
\* made; after a decode, the encode of the number it made, to a proper list
Turn ==
  /\ status = "exit"
  /\ first = NoCall
  /\ first' = [k |-> "call", Number |-> argNumber, Bytes0 |-> argBytes0,
               Bytes |-> argBytes, outNumber |-> resNumber,
               outBytes0 |-> resBytes0, outBytes |-> resBytes]
  /\ argNumber' = IF PL_is_variable(argNumber) THEN resNumber ELSE VarT
  /\ argBytes0' = IF PL_is_variable(argNumber) THEN VarL ELSE resBytes0
  /\ argBytes' = IF PL_is_variable(argNumber) THEN NilL ELSE VarL
  /\ resNumber' = argNumber'
  /\ resBytes0' = argBytes0'
  /\ resBytes' = argBytes'
  /\ status' = "call"
  /\ UNCHANGED <<build, pred, beTrace>>

Next ==
  \/ Call_float32
  \/ Call_float64
  \/ Call_uint16
  \/ Call_uint32
  \/ Call_uint64
  \/ Call_int16
  \/ Call_int32
  \/ Call_int64
  \/ Turn

Spec == Init /\ [][Next]_vars
SpecEncode == InitEncode /\ [][Next]_vars
SpecDecode == InitDecode /\ [][Next]_vars

(***************************************************************************)
(* The byte-order functions on their own: a word, and the results of       *)
(* converting it again and again.  Every 16-bit word is tried; the wider   *)
(* words are made of the limbs 0x0000, 0x0001, 0x0102, 0x7F80, 0x80FF, 0xFFFE.  MaxBe      *)
(* bounds the number of conversions.                                       *)
(***************************************************************************)
MaxBe == 2

BeLimbs == {0, 1, 258, 32640, 33023, 65534}

InitBe ==
  /\ build \in Builds
  /\ \/ \E x \in 0..65535 : beTrace = <<<<x>>>>
     \/ \E t \in BeLimbs, l \in BeLimbs : beTrace = <<<<t, l>>>>
     \/ \E t \in BeLimbs, m \in BeLimbs, l \in BeLimbs : \E n \in BeLimbs :
          beTrace = <<<<t, m, n, l>>>>
  /\ pred = "none"
  /\ argNumber = VarT
  /\ argBytes0 = VarL
  /\ argBytes = VarL
  /\ resNumber = VarT
  /\ resBytes0 = VarL
  /\ resBytes = VarL
  /\ status = "none"
  /\ first = NoCall

\* the conversion of the last word of the trace by be, for words of n limbs
Apply(n, r) ==
  /\ beTrace # <<>>
  /\ Len(beTrace) <= MaxBe
  /\ Len(beTrace[Len(beTrace)]) = n
  /\ beTrace' = Append(beTrace, r)
  /\ UNCHANGED <<build, pred, argNumber, argBytes0, argBytes, status,
                 resNumber, resBytes0, resBytes, first>>

Apply_be16 == Apply(1, be16(build, beTrace[Len(beTrace)]))
Apply_be32 == Apply(2, be32(build, beTrace[Len(beTrace)]))
Apply_be64 == Apply(4, be64(build, beTrace[Len(beTrace)]))

NextBe ==
  \/ Apply_be16
  \/ Apply_be32
  \/ Apply_be64

SpecBe == InitBe /\ [][NextBe]_vars

(***************************************************************************)
(* What the claims speak of, stated apart from the code above.             *)
(***************************************************************************)
Decoding == argNumber.k = "var"
Encoding == argNumber.k # "var"
Called == status \in {"exit", "fail"}
FirstCall == first = NoCall
SecondCall == first # NoCall

SignedPreds == {"int16", "int32", "int64"}
UnsignedPreds == {"uint16", "uint32", "uint64"}
Limbs(p) == Width(p) \div 2

\* -2^(16w-1) <= t <= 2^(16w-1) - 1
InSigned(t, w) ==
  /\ t.k = "int"
  /\ \/ Len(t.mag) < w
     \/ Len(t.mag) = w /\ t.mag[1] < 32768
     \/ t.neg /\ t.mag = <<32768>> \o [i \in 1..(w - 1) |-> 0]

\* 0 <= t <= 2^(16w) - 1
InUnsigned(t, w) == t.k = "int" /\ ~t.neg /\ Len(t.mag) <= w

InRange(p, t) ==
  IF p \in SignedPreds THEN InSigned(t, Limbs(p)) ELSE InUnsigned(t, Limbs(p))

\* a cell that is an integer in 0..255, and its value
IsByte(c) ==
  /\ c.k = "int"
  /\ ~c.neg
  /\ c.mag = <<>> \/ (Len(c.mag) = 1 /\ c.mag[1] <= 255)
ByteOf(c) == IF c.mag = <<>> THEN 0 ELSE c.mag[1]

\* a cell that is an integer outside 0..255
IsNoByte(c) == c.k = "int" /\ ~IsByte(c)

\* the magnitude m in w limbs
Padded(m, w) == [i \in 1..w |-> IF i <= w - Len(m) THEN 0 ELSE m[i - (w - Len(m))]]

\* 2^(16 Len(x)) - x for x # 0: the limbs after the last non-zero limb stay
\* zero, that limb is negated, the limbs before it are complemented
LastNonZero(x) == CHOOSE i \in 1..Len(x) : x[i] # 0 /\ \A j \in (i + 1)..Len(x) : x[j] = 0
TwosNegative(x) ==
  [i \in 1..Len(x) |->
     IF i < LastNonZero(x) THEN 65535 - x[i]
     ELSE IF i = LastNonZero(x) THEN 65536 - x[i] ELSE 0]

\* the two's complement pattern of integer t in w limbs
TwosPattern(t, w) ==
  IF t.neg THEN TwosNegative(Padded(t.mag, w)) ELSE Padded(t.mag, w)

\* bits 8(N-1-k) .. 8(N-1-k)+7 of a pattern of N bytes, k = 0 .. N-1
PatternByte(x, k) ==
  IF k % 2 = 0 THEN x[(k \div 2) + 1] \div 256 ELSE x[(k \div 2) + 1] % 256

\* the first n cells of a list are integers in 0..255
FirstAreBytes(l, n) ==
  /\ Len(l.cells) >= n
  /\ \A i \in 1..n : IsByte(l.cells[i])

\* what predicate p returns on a goal
Returns(p, b, Number, Bytes0, Bytes) ==
  CASE p = "float32" -> float32_3(b, Number, Bytes0, Bytes)
    [] p = "float64" -> float64_3(b, Number, Bytes0, Bytes)
    [] p = "uint16" -> uint16_3(b, Number, Bytes0, Bytes)
    [] p = "uint32" -> uint32_3(b, Number, Bytes0, Bytes)
    [] p = "uint64" -> uint64_3(b, Number, Bytes0, Bytes)
    [] p = "int16" -> int16_3(b, Number, Bytes0, Bytes)
    [] p = "int32" -> int32_3(b, Number, Bytes0, Bytes)
    [] p = "int64" -> int64_3(b, Number, Bytes0, Bytes)

\* 1.5, and the cells 0x3F, 0xC0, 0x00, 0x00
OneAndAHalf == FloatT("normal", 0, 0, <<8, 0, 0, 0>>)
OneAndAHalfCells == <<Nat16(63), Nat16(192), Nat16(0), Nat16(0)>>

(***************************************************************************)
(* The claims.                                                             *)
(***************************************************************************)

\* C1: an integer that int16, int32, int64, uint16, uint32 or uint64 encoded
\* decodes, from the cells the encode made, to the same integer.
C1_RoundTrip ==
  (SecondCall /\ Called /\ Decoding /\ pred \in IntPreds)
    => (status = "exit" /\ resNumber = first.Number)

\* what does hold of the round trip: uint16, uint32, uint64 and int64 decode
\* what they encoded to the same integer, and so do int16 and int32 for an
\* integer that is not negative
RoundTripElsewhere ==
  (SecondCall /\ Called /\ Decoding /\ pred \in IntPreds
     /\ (pred \in UnsignedPreds \cup {"int64"} \/ ~first.Number.neg))
    => (status = "exit" /\ resNumber = first.Number)

\* C2: with the output unbound, an integer encoder succeeds exactly on the
\* integers of its range (signed: -2^(w-1) .. 2^(w-1)-1, unsigned:
\* 0 .. 2^w-1), and a failed encode emits no cell.
C2_EncodeRange ==
  (FirstCall /\ Called /\ Encoding /\ pred \in IntPreds /\ argNumber.k = "int"
     /\ argBytes0 = VarL)
    => /\ (status = "exit") <=> InRange(pred, argNumber)
       /\ status = "fail" => (resBytes0 = VarL /\ resBytes = argBytes)

\* uint16 of 65536 was called and failed
C2_Witness ==
  /\ FirstCall
  /\ pred = "uint16"
  /\ argNumber = IntT(FALSE, <<1, 0>>)
  /\ argBytes0 = VarL
  /\ status = "fail"

\* C3: an integer encoder of N bytes emits exactly N cells, cell k the byte
\* k (most significant first) of the N-byte two's complement pattern of the
\* value, on the little-endian and on the big-endian build.
C3_EncodeLayout ==
  (FirstCall /\ status = "exit" /\ Encoding /\ pred \in IntPreds /\ argBytes0 = VarL)
    => /\ Len(resBytes0.cells) = Width(pred)
       /\ resBytes0.tail = argBytes.tail
       /\ \A k \in 0..(Width(pred) - 1) :
            resBytes0.cells[k + 1]
              = Nat16(PatternByte(TwosPattern(argNumber, Limbs(pred)), k))

\* uint32 of 0x01020304 on the little-endian build made [1, 2, 3, 4]
C3_Witness ==
  /\ FirstCall
  /\ build = "little"
  /\ pred = "uint32"
  /\ argNumber = IntT(FALSE, <<258, 772>>)
  /\ argBytes0 = VarL
  /\ status = "exit"
  /\ resBytes0.cells = <<Nat16(1), Nat16(2), Nat16(3), Nat16(4)>>

\* C4: uint16, uint32 and uint64 decode cells b0 .. b(N-1), each in 0..255,
\* to the sum of b_k * 256^(N-1-k), and the little-endian and the big-endian
\* build return the same.
C4_DecodeValue ==
  (Called /\ Decoding /\ pred \in UnsignedPreds
     /\ FirstAreBytes(argBytes0, Width(pred)) /\ argBytes = VarL)
    => /\ status = "exit"
       /\ Returns(pred, "little", argNumber, argBytes0, argBytes)
            = Returns(pred, "big", argNumber, argBytes0, argBytes)
       /\ resNumber.k = "int"
       /\ ~resNumber.neg
       /\ Len(resNumber.mag) <= Limbs(pred)
       /\ resNumber.mag = <<>> \/ resNumber.mag[1] # 0
       /\ \A i \in 1..Limbs(pred) :
            Padded(resNumber.mag, Limbs(pred))[i]
              = ByteOf(argBytes0.cells[2 * i - 1]) * 256 + ByteOf(argBytes0.cells[2 * i])

\* uint32 decoded [1, 2, 3, 4] to 0x01020304 on the little-endian build
C4_Witness ==
  /\ build = "little"
  /\ pred = "uint32"
  /\ Decoding
  /\ argBytes0.cells = <<Nat16(1), Nat16(2), Nat16(3), Nat16(4)>>
  /\ status = "exit"
  /\ resNumber = IntT(FALSE, <<258, 772>>)

\* C5: a decode of a list of fewer than N cells fails and binds nothing; a
\* decode of a list of exactly N bytes succeeds with the remainder [].
C5_ShortInput ==
  (Called /\ Decoding)
    => /\ (Len(argBytes0.cells) < Width(pred) /\ argBytes0.tail = "nil")
            => /\ status = "fail"
               /\ resNumber = VarT
               /\ resBytes = argBytes
               /\ resBytes0 = argBytes0
       /\ (Len(argBytes0.cells) = Width(pred) /\ argBytes0.tail = "nil"
             /\ FirstAreBytes(argBytes0, Width(pred)) /\ argBytes = VarL)
            => /\ status = "exit"
               /\ resNumber.k # "var"
               /\ resBytes = NilL

\* int64 was given seven bytes and failed
C5_Witness ==
  /\ pred = "int64"
  /\ Decoding
  /\ Len(argBytes0.cells) = 7
  /\ \A i \in 1..7 : IsByte(argBytes0.cells[i])
  /\ argBytes0.tail = "nil"
  /\ status = "fail"

\* C6: a decode of a list whose first N cells are bytes succeeds, returns
\* the cells after them unchanged as the remainder, and returns the number
\* it returns for the first N cells alone.
C6_Remainder ==
  (Called /\ Decoding /\ FirstAreBytes(argBytes0, Width(pred)) /\ argBytes = VarL)
    => /\ status = "exit"
       /\ resBytes = ListT(SubSeq(argBytes0.cells, Width(pred) + 1,
                                  Len(argBytes0.cells)), argBytes0.tail)
       /\ resBytes0 = argBytes0
       /\ resNumber = Returns(pred, build, VarT,
                              ListT(SubSeq(argBytes0.cells, 1, Width(pred)), "nil"),
                              VarL).Number

\* int32 was given four bytes and then a cell that is no byte, and succeeded
C6_Witness ==
  /\ pred = "int32"
  /\ Decoding
  /\ Len(argBytes0.cells) = 6
  /\ ~IsByte(argBytes0.cells[5])
  /\ status = "exit"
  /\ resBytes.cells = SubSeq(argBytes0.cells, 5, 6)

\* C7: a decode fails and binds nothing when one of the first N cells is an
\* integer outside 0..255.
C7_InvalidCell ==
  (Called /\ Decoding
     /\ \E i \in 1..Width(pred) : i <= Len(argBytes0.cells) /\ IsNoByte(argBytes0.cells[i]))
    => /\ status = "fail"
       /\ resNumber = VarT
       /\ resBytes = argBytes

\* uint32 was given three bytes and then 256, and failed
C7_Witness ==
  /\ pred = "uint32"
  /\ Decoding
  /\ Len(argBytes0.cells) >= 4
  /\ \A i \in 1..3 : IsByte(argBytes0.cells[i])
  /\ argBytes0.cells[4] = Nat16(256)
  /\ status = "fail"

\* C8: be16, be32 and be64 applied twice return the word they were given,
\* every result keeps the width of the word, and on the big-endian build
\* each returns its argument.
C8_SelfInverse ==
  /\ \A i \in 1..Len(beTrace) :
       /\ Len(beTrace[i]) = Len(beTrace[1])
       /\ \A j \in 1..Len(beTrace[i]) : beTrace[i][j] \in 0..65535
  /\ \A i \in 1..(Len(beTrace) - 2) : beTrace[i + 2] = beTrace[i]
  /\ build = "big" => \A i \in 1..(Len(beTrace) - 1) : beTrace[i + 1] = beTrace[i]

\* be64 took 0x0102 80FF 0001 FFFE to 0xFEFF 0100 FF80 0201 and back
C8_Witness ==
  /\ build = "little"
  /\ beTrace = << <<258, 33023, 1, 65534>>, <<65279, 256, 65408, 513>>,
                  <<258, 33023, 1, 65534>> >>

\* C9: float32 encodes 1.5 to the cells 0x3F, 0xC0, 0x00, 0x00, and decodes
\* those cells to 1.5.
C9_Float32 ==
  /\ (FirstCall /\ Called /\ pred = "float32" /\ argNumber = OneAndAHalf
        /\ argBytes0 = VarL)
       => (status = "exit" /\ resBytes0.cells = OneAndAHalfCells)
  /\ (Called /\ Decoding /\ pred = "float32" /\ argBytes = VarL
        /\ Len(argBytes0.cells) >= 4
        /\ SubSeq(argBytes0.cells, 1, 4) = OneAndAHalfCells)
       => (status = "exit" /\ resNumber = OneAndAHalf)

\* float32 encoded 1.5, and then decoded the cells it made to 1.5
C9_Witness ==
  /\ SecondCall
  /\ pred = "float32"
  /\ first.Number = OneAndAHalf
  /\ first.Bytes0 = VarL
  /\ argBytes0.cells = OneAndAHalfCells
  /\ status = "exit"
  /\ resNumber = OneAndAHalf

\* C10: an integer codec decodes N bytes to a number of its own encode
\* range, and encodes that number back to the same N cells.
C10_DecodeDomain ==
  /\ (FirstCall /\ Called /\ Decoding /\ pred \in IntPreds
        /\ FirstAreBytes(argBytes0, Width(pred)) /\ argBytes = VarL)
       => (status = "exit" /\ InRange(pred, resNumber))
  /\ (SecondCall /\ Called /\ Encoding /\ pred \in IntPreds)
       => /\ status = "exit"
          /\ resBytes0.cells = SubSeq(first.Bytes0.cells, 1, Width(pred))

\* what does hold of it: uint16, uint32, uint64 and int64 decode N bytes to a
\* number of their range and encode it back to the same N cells, and so do
\* int16 and int32 when the top bit of the first byte is 0
DecodeDomainElsewhere ==
  /\ (FirstCall /\ Called /\ Decoding /\ pred \in IntPreds
        /\ FirstAreBytes(argBytes0, Width(pred)) /\ argBytes = VarL
        /\ (pred \in UnsignedPreds \cup {"int64"}
              \/ ByteOf(argBytes0.cells[1]) < 128))
       => (status = "exit" /\ InRange(pred, resNumber))
  /\ (SecondCall /\ Called /\ Encoding /\ pred \in IntPreds
        /\ (pred \in UnsignedPreds \cup {"int64"}
              \/ ByteOf(first.Bytes0.cells[1]) < 128))
       => /\ status = "exit"
          /\ resBytes0.cells = SubSeq(first.Bytes0.cells, 1, Width(pred))

====
